---- MODULE Spec2Model ----
(***************************************************************************)
(* A model of kj's event loop and promise nodes (c++/src/kj/async.c++).    *)
(*                                                                         *)
(* Pointers.  An Event* is 0 (nullptr) or the identity of an event.  An    *)
(* Event** ("slot") is NullSlot (nullptr), HeadSlot (&loop.head) or the    *)
(* identity e of an event, standing for &e->next.  A pointer to a          *)
(* destroyed event dangles: what is read through it is any value the       *)
(* memory may hold, what is written through it is lost.                    *)
(*                                                                         *)
(* Specifications.  Spec: one thread, the queue and wait().  SpecOrder:    *)
(* the same with the firing order recorded.  SpecThreads: arms and loops   *)
(* of several threads.  SpecSleep: SimpleEventLoop's sleep() and wake().   *)
(* SpecNodes: OnReadyEvent, adapter nodes and ExclusiveJoinPromiseNode.    *)
(* SpecTasks: TaskSetImpl.  SpecFork: ForkHub and ForkBranch.  SpecChain:  *)
(* ChainPromiseNode, bare or wrapped in an Attachment or Transform node.   *)
(* SpecLive: Spec with a loop that keeps taking its steps.                 *)
(***************************************************************************)
EXTENDS Integers, Sequences, FiniteSets, TLC

\* Number of application events the loop's thread constructs.
NumEvents == 3
\* Number of wait() calls that are let in.
MaxWaits == 2

\* Number of threads: the loop's thread and the others.
NumThreads == 3

\* Number of branches made of one fork.
NumBranches == 2

nullptr == 0
HeadSlot == 0
NullSlot == 0 - 1

Events == 1..NumEvents
\* The BoolEvent that waitImpl keeps on its stack.
doneEvent == NumEvents + 1
AllEvents == 1..(NumEvents + 1)

\* Threads, and loops: the loop constructed by thread t is loop t.  The loop
\* whose queue is modelled is the one of LoopThread.
Threads == 1..NumThreads
LoopThread == 1
OtherThreads == Threads \ {LoopThread}

\* Promise nodes: an ExclusiveJoinPromiseNode ("join") and the two adapter
\* nodes that become its dependencies.  The join's branches are events.
Deps == {"left", "right"}
Nodes == Deps \cup {"join"}
leftBranch == NumEvents - 1
rightBranch == NumEvents
Branches == {leftBranch, rightBranch}
\* A ChainPromiseNode is the first event constructed.
chainEvent == 1

\* A ForkHub is the first event constructed; its branches are numbered.  A
\* slot of the branch list is NullSlot, HeadSlot (&first) or b (&b->next).
hubEvent == 1
ForkBranches == 1..NumBranches

\* reinterpret_cast<Event*>(1): an address that is no event's.
kJ_ALREADY_READY == NumEvents + 2

VARIABLES
    head,                    \* EventLoop::head
    tail,                    \* EventLoop::tail (a slot)
    depthFirstInsertPoint,   \* EventLoop::depthFirstInsertPoint (a slot)
    next,                    \* Event::next, per event
    prev,                    \* Event::prev, per event (a slot)
    firing,                  \* Event::firing, per event
    alive,                   \* the event object exists (constructed, not destroyed)
    running,                 \* EventLoop::running
    pc,                      \* where the loop's thread is in waitImpl
    event,                   \* waitImpl's local `event`
    doneFired,               \* doneEvent.fired
    waitKind,                \* what node->onReady(doneEvent) did in this wait
    op,                      \* the operation that produced this state
    constructed,             \* how many application events have been constructed
    waits,                   \* how many wait() calls have been let in
    uaf,                     \* some operation went through a dangling pointer
    recording,               \* whether the firing order is recorded in the variables below
    bfWatch,                 \* an event armed breadth-first and not fired since, or nullptr
    bfBefore,                \* the events that were queued when bfWatch was armed, not fired since
    bfLate,                  \* the last dequeue took bfWatch while bfBefore was not empty
    behind,                  \* events queued behind the firing event when it was dequeued
    dfWatch,                 \* an event armed depth-first inside a fire() and not fired since, or nullptr
    dfOpen,                  \* the fire() in which dfWatch was armed is still running
    dfAfter,                 \* the events that have to fire after dfWatch
    dfLate,                  \* the last dequeue took an event of dfAfter ahead of dfWatch
    threadLocalEventLoop,    \* threadLocalEventLoop, per thread (nullptr or a loop)
    caller,                  \* the thread that made the last arm call
    futex,                   \* KJ_USE_FUTEX: which SimpleEventLoop is built
    preparedToSleep,         \* SimpleEventLoop::preparedToSleep
    mutexOwner,              \* the thread holding SimpleEventLoop::mutex, or 0
    signalled,               \* the blocked loop thread has been woken (FUTEX_WAKE, cond_signal)
    wpc,                     \* where each other thread is in wake()
    onReadyEvent,            \* OnReadyEvent::event, per node
    dependency,              \* Branch::dependency is not null, per branch
    armCalls,                \* how often OnReadyEvent::arm() was called, per node
    winner,                  \* the branch that fired first ("none" before)
    result,                  \* what ExclusiveJoinPromiseNode::get found
    joinState,               \* whether the ExclusiveJoinPromiseNode exists
    tasks,                   \* TaskSetImpl::tasks (the keys of the map)
    task,                    \* per Task: its promise node, and how often it fired and failed
    hub,                     \* the ForkHub: its inner node, stored result and branch list
    branch,                  \* per ForkBranch: prevPtr, OnReadyEvent, and how often it was signalled
    chain                    \* the ChainPromiseNode, its two inner nodes and its consumer

queueVars == <<head, tail, depthFirstInsertPoint, next, prev>>
waitVars == <<running, pc, event, doneFired, waitKind>>
counters == <<constructed, waits, recording>>
orderVars == <<bfWatch, bfBefore, bfLate, behind, dfWatch, dfOpen, dfAfter, dfLate>>
threadVars == <<threadLocalEventLoop, caller>>
sleepVars == <<futex, preparedToSleep, mutexOwner, signalled, wpc>>
\* The TaskSet; the ForkHub and its branches; the ChainPromiseNode.
taskVars == <<tasks, task>>
forkVars == <<hub, branch>>
promiseVars == <<taskVars, forkVars, chain>>
\* The ExclusiveJoinPromiseNode and its adapters.
joinVars == <<onReadyEvent, dependency, armCalls, winner, result, joinState>>
nodeVars == <<joinVars, promiseVars>>
\* What prepareToSleep(), sleep() and wake() leave alone.
restVars == <<firing, alive, running, event, doneFired, waitKind, counters, uaf,
              orderVars, threadVars, nodeVars>>
vars == <<head, tail, depthFirstInsertPoint, next, prev, firing, alive, running, pc,
          event, doneFired, waitKind, op, constructed, waits, uaf, recording, bfWatch, bfBefore, bfLate, behind,
          dfWatch, dfOpen, dfAfter, dfLate, threadLocalEventLoop, caller, futex,
          preparedToSleep, mutexOwner, signalled, wpc, onReadyEvent, dependency, armCalls,
          winner, result, joinState, tasks, task, hub, branch, chain>>

-----------------------------------------------------------------------------
(* The queue as a value, so that one handler can run several queue          *)
(* operations in sequence.                                                  *)

Q == [head |-> head, tail |-> tail, dfip |-> depthFirstInsertPoint,
      next |-> next, prev |-> prev]

SetQ(q) ==
    /\ head' = q.head
    /\ tail' = q.tail
    /\ depthFirstInsertPoint' = q.dfip
    /\ next' = q.next
    /\ prev' = q.prev

\* A slot is dangling when it lies inside an event that no longer exists.
Dangling(al, s) == s \in AllEvents /\ ~al[s]

\* The values `*s` can yield.  Reading a dangling slot is undefined: the
\* read yields nullptr or the address of any existing event.
ReadSlot(q, al, s) ==
    IF s = HeadSlot THEN {q.head}
    ELSE IF al[s] THEN {q.next[s]}
    ELSE {nullptr} \cup {e \in AllEvents : al[e]}

\* `*s = v`.  A write through a dangling slot lands in released memory.
WriteSlot(q, al, s, v) ==
    IF s = HeadSlot THEN [q EXCEPT !.head = v]
    ELSE IF al[s] THEN [q EXCEPT !.next[s] = v]
    ELSE q

\* `e->prev = s`, for e # nullptr.
WritePrev(q, al, e, s) ==
    IF al[e] THEN [q EXCEPT !.prev[e] = s] ELSE q

\* The events reachable from head through next, in order.
RECURSIVE Walk(_, _, _)
Walk(q, e, seen) ==
    IF e = nullptr \/ e \in seen THEN <<>>
    ELSE <<e>> \o Walk(q, q.next[e], seen \cup {e})

QueueSeq(q) == Walk(q, q.head, {})
Range(s) == {s[i] : i \in 1..Len(s)}
Queued(q) == Range(QueueSeq(q))
\* The existing events among them.
QueuedEvents(q, al) == {e \in Queued(q) : al[e]}

-----------------------------------------------------------------------------
(* EventLoop::Event: arming and destruction.                                *)

\* An ownership test that lets the loop's own thread through and no other.
ThreadOwnsLoop(tl, lp) == tl = lp

\* The thread-ownership test of armDepthFirst, armBreadthFirst and ~Event:
\* tl is the calling thread's threadLocalEventLoop, lp the event's loop.
ThreadMayTouch(tl, lp) == tl = lp \/ tl = nullptr

\* next = n; prev = s; *prev = this; if (next != nullptr) next->prev = &next;
LinkAt(q, al, e, s, n) ==
    LET q1 == [q EXCEPT !.next[e] = n, !.prev[e] = s]
        q2 == WriteSlot(q1, al, q1.prev[e], e)
    IN  IF q2.next[e] # nullptr THEN WritePrev(q2, al, q2.next[e], e) ELSE q2

\* loop.depthFirstInsertPoint = &next; if (loop.tail == prev) loop.tail = &next;
AdvanceInsertPoint(q, e) ==
    LET q1 == [q EXCEPT !.dfip = e]
    IN  IF q1.tail = q1.prev[e] THEN [q1 EXCEPT !.tail = e] ELSE q1

\* The queues armDepthFirst can leave (one, unless it reads a dangling slot).
armDepthFirst(q, al, e) ==
    IF q.prev[e] # NullSlot THEN {q}
    ELSE {AdvanceInsertPoint(LinkAt(q, al, e, q.dfip, n), e) :
              n \in ReadSlot(q, al, q.dfip)}

\* loop.tail = &next;
AdvanceTail(q, e) == [q EXCEPT !.tail = e]

\* The queues armBreadthFirst can leave.
armBreadthFirst(q, al, e) ==
    IF q.prev[e] # NullSlot THEN {q}
    ELSE {AdvanceTail(LinkAt(q, al, e, q.tail, n), e) :
              n \in ReadSlot(q, al, q.tail)}

\* ~Event: the unlinking; the object's memory is released afterwards.
Unlink(q, al, e) ==
    IF q.prev[e] = NullSlot THEN q
    ELSE LET q1 == IF q.head = e THEN [q EXCEPT !.head = q.next[e]] ELSE q
             q2 == IF q1.tail = e THEN [q1 EXCEPT !.tail = q1.prev[e]] ELSE q1
             q3 == IF q2.dfip = e THEN [q2 EXCEPT !.dfip = q2.prev[e]] ELSE q2
             q4 == WriteSlot(q3, al, q3.prev[e], q3.next[e])
         IN  IF q4.next[e] # nullptr
             THEN WritePrev(q4, al, q4.next[e], q4.prev[e])
             ELSE q4

\* Released memory holds nothing the model reads back.
Release(q, e) == [q EXCEPT !.next[e] = nullptr, !.prev[e] = NullSlot]

DestroyEvent(q, al, e) == Release(Unlink(q, al, e), e)

\* Whether an arm of e at slot s, or the destruction of e, goes through a
\* pointer into released memory.
ArmIsUndefined(q, al, e, s) ==
    /\ q.prev[e] = NullSlot
    /\ \/ Dangling(al, s)
       \/ s # HeadSlot /\ al[s] /\ q.next[s] # nullptr /\ ~al[q.next[s]]
       \/ s = HeadSlot /\ q.head # nullptr /\ ~al[q.head]

DestroyIsUndefined(q, al, e) ==
    /\ q.prev[e] # NullSlot
    /\ \/ Dangling(al, q.prev[e])
       \/ q.next[e] # nullptr /\ ~al[q.next[e]]

-----------------------------------------------------------------------------
(* EventLoop::waitImpl, lines 235-244: take the head event off the queue.   *)

\* head = event->next;
AdvanceHead(q, e) == [q EXCEPT !.head = q.next[e]]

Dequeued(q, e) ==
    LET q1 == AdvanceHead(q, e)
        q2 == [q1 EXCEPT !.dfip = HeadSlot]
        q3 == IF q2.tail = e THEN [q2 EXCEPT !.tail = HeadSlot] ELSE q2
    IN  [q3 EXCEPT !.next[e] = nullptr, !.prev[e] = NullSlot]

-----------------------------------------------------------------------------------------------------------------------------------------------------
(* Bookkeeping for the firing order (history, not program state).  One    *)
(* breadth-first arm and one depth-first arm are followed at a time: the   *)
(* first one made while none is being followed.                            *)

\* An arm of event e has returned: inserted tells whether it put e on the
\* queue, queued is what was on the queue before, df whether it was
\* armDepthFirst.  An event that is put on the queue again no longer counts
\* as one that was queued before.
OrderAfterArm(e, inserted, queued, df) ==
    LET followBF == recording /\ inserted /\ ~df /\ bfWatch = nullptr
        followDF == /\ recording /\ inserted /\ df /\ dfWatch = nullptr
                    /\ pc = "fire" /\ e \notin behind
    IN  /\ bfWatch' = IF followBF THEN e ELSE bfWatch
        /\ bfBefore' = IF followBF THEN queued \ {e}
                       ELSE IF inserted THEN bfBefore \ {e} ELSE bfBefore
        /\ dfWatch' = IF followDF THEN e ELSE dfWatch
        /\ dfOpen' = (dfOpen \/ followDF)
        /\ dfAfter' = IF followDF THEN behind
                      ELSE IF inserted /\ df /\ dfOpen /\ e # dfWatch /\ e \notin behind
                      THEN dfAfter \cup {e}
                      ELSE IF inserted THEN dfAfter \ {e} ELSE dfAfter
        /\ behind' = IF inserted THEN behind \ {e} ELSE behind
        /\ UNCHANGED <<bfLate, dfLate>>

\* Event e is taken off the queue to be fired; rest is what stays queued.
OrderAfterDequeue(e, rest) ==
    /\ bfLate' = (e = bfWatch /\ bfBefore # {})
    /\ bfWatch' = IF e = bfWatch THEN nullptr ELSE bfWatch
    /\ bfBefore' = IF e = bfWatch THEN {} ELSE bfBefore \ {e}
    /\ dfLate' = (dfWatch # nullptr /\ e # dfWatch /\ e \in dfAfter)
    /\ dfWatch' = IF e = dfWatch THEN nullptr ELSE dfWatch
    /\ dfAfter' = IF e = dfWatch THEN {} ELSE dfAfter \ {e}
    /\ dfOpen' = FALSE
    /\ behind' = IF recording THEN rest ELSE {}

\* Event e is destroyed: it neither fires nor has to be waited for.
OrderAfterDestroy(e) ==
    /\ bfWatch' = IF e = bfWatch THEN nullptr ELSE bfWatch
    /\ bfBefore' = IF e = bfWatch THEN {} ELSE bfBefore \ {e}
    /\ dfWatch' = IF e = dfWatch THEN nullptr ELSE dfWatch
    /\ dfAfter' = IF e = dfWatch THEN {} ELSE dfAfter \ {e}
    /\ dfOpen' = (dfOpen /\ e # dfWatch)
    /\ behind' = behind \ {e}
    /\ UNCHANGED <<bfLate, dfLate>>

\* fire() is over (and event e destroyed, if e # nullptr).
OrderAfterFire(e) ==
    /\ bfWatch' = IF e # nullptr /\ e = bfWatch THEN nullptr ELSE bfWatch
    /\ bfBefore' = IF e # nullptr /\ e = bfWatch THEN {} ELSE bfBefore \ {e}
    /\ dfWatch' = IF e # nullptr /\ e = dfWatch THEN nullptr ELSE dfWatch
    /\ dfAfter' = IF e # nullptr /\ e = dfWatch THEN {} ELSE dfAfter \ {e}
    /\ dfOpen' = FALSE
    /\ behind' = {}
    /\ UNCHANGED <<bfLate, dfLate>>

-----------------------------------------------------------------------------
(* The loop's thread: application code, which runs outside wait(), inside   *)
(* the fire() of an application event, or inside the loop's sleep().        *)

UserCode ==
    \/ pc \in {"idle", "sleep"}
    \/ pc = "fire" /\ event # doneEvent

InitLoop ==
    /\ head = nullptr
    /\ tail = HeadSlot
    /\ depthFirstInsertPoint = HeadSlot
    /\ next = [e \in AllEvents |-> nullptr]
    /\ prev = [e \in AllEvents |-> NullSlot]
    /\ firing = [e \in AllEvents |-> FALSE]
    /\ alive = [e \in AllEvents |-> FALSE]
    /\ running = FALSE
    /\ pc = "idle"
    /\ event = nullptr
    /\ doneFired = FALSE
    /\ waitKind = "none"
    /\ op = "init"
    /\ constructed = 0
    /\ waits = 0
    /\ uaf = FALSE
    /\ bfWatch = nullptr
    /\ bfBefore = {}
    /\ bfLate = FALSE
    /\ behind = {}
    /\ dfWatch = nullptr
    /\ dfOpen = FALSE
    /\ dfAfter = {}
    /\ dfLate = FALSE

\* Thread LoopThread has constructed its loop; no other thread has one.
InitThreads ==
    /\ threadLocalEventLoop = [t \in Threads |-> IF t = LoopThread THEN LoopThread ELSE nullptr]
    /\ caller = LoopThread

\* SimpleEventLoop::SimpleEventLoop(), of the build chosen by useFutex.
InitSimpleEventLoop(useFutex) ==
    /\ futex = useFutex
    /\ preparedToSleep = 0
    /\ mutexOwner = 0
    /\ signalled = FALSE
    /\ wpc = [t \in Threads |-> "idle"]

\* What is known of a Task that has not been added.
NoTask == [ore |-> nullptr, ready |-> FALSE, exception |-> FALSE, dtorThrows |-> FALSE,
           node |-> FALSE, fired |-> 0, failed |-> 0]

\* TaskSetImpl::TaskSetImpl: no tasks.
InitTasks ==
    /\ tasks = {}
    /\ task = [e \in Events |-> NoTask]

\* A ForkBranch that does not exist.
NoBranch == [live |-> FALSE, early |-> FALSE, prevPtr |-> NullSlot, ore |-> nullptr,
             signals |-> 0, got |-> "none"]

\* No fork has been made.  In hub.next, index 0 is branchList.first and index
\* b is the next pointer of branch b.
InitFork ==
    /\ hub = [state |-> "none", ore |-> nullptr, inner |-> FALSE, innerResult |-> "none",
              stored |-> "none", next |-> [b \in 0..NumBranches |-> 0],
              lastPtr |-> HeadSlot, walks |-> 0, waited |-> 0]
    /\ branch = [b \in ForkBranches |-> NoBranch]

\* No chain has been made.  ore1 and r1 are the OnReadyEvent and the result
\* of the step-1 promise, ore2 and r2 those of the promise that the step-1
\* result holds; consumer is the event registered by the one onReady call
\* made on the chain, signals how often that event was reported ready.
InitChain ==
    chain = [state |-> "none", inner |-> "none", ore1 |-> nullptr, r1 |-> "none",
             ore2 |-> nullptr, r2 |-> "none", onReadyEvent |-> nullptr,
             consumer |-> nullptr, signals |-> 0, wrapper |-> "none", got |-> "none"]

\* Two adapter nodes nobody has registered on; no join yet.
InitNodes ==
    /\ onReadyEvent = [n \in Nodes |-> nullptr]
    /\ dependency = [d \in Deps |-> FALSE]
    /\ armCalls = [n \in Nodes |-> 0]
    /\ winner = "none"
    /\ result = "none"
    /\ joinState = "none"
    /\ InitTasks
    /\ InitFork
    /\ InitChain

Init ==
    /\ InitLoop
    /\ recording = FALSE
    /\ InitThreads
    /\ InitSimpleEventLoop(TRUE)
    /\ InitNodes

\* The same program, with the firing order recorded.
InitOrder ==
    /\ InitLoop
    /\ recording = TRUE
    /\ InitThreads
    /\ InitSimpleEventLoop(TRUE)
    /\ InitNodes

\* Event::Event(): next(nullptr), prev(nullptr).  Event identities are
\* interchangeable, so they are handed out in increasing order.
Construct(e) ==
    /\ UserCode
    /\ e = constructed + 1
    /\ constructed' = e
    /\ alive' = [alive EXCEPT ![e] = TRUE]
    /\ SetQ([Q EXCEPT !.next[e] = nullptr, !.prev[e] = NullSlot])
    /\ op' = "construct"
    /\ UNCHANGED <<firing, waitVars, waits, recording, uaf, orderVars>>
    /\ UNCHANGED <<threadVars, sleepVars, nodeVars>>

\* Application code may arm its own events; doneEvent is armed only by the
\* node it was registered on.
MayArm(e) == alive[e] /\ (e = doneEvent => waitKind = "pending")

ArmDepthFirst(e) ==
    /\ UserCode
    /\ MayArm(e)
    /\ \E q \in armDepthFirst(Q, alive, e) : SetQ(q)
    /\ uaf' = (uaf \/ ArmIsUndefined(Q, alive, e, depthFirstInsertPoint))
    /\ OrderAfterArm(e, prev[e] = NullSlot, QueuedEvents(Q, alive), TRUE)
    /\ op' = "armDepthFirst"
    /\ UNCHANGED <<firing, alive, waitVars, counters>>
    /\ UNCHANGED <<threadVars, sleepVars, nodeVars>>

ArmBreadthFirst(e) ==
    /\ UserCode
    /\ alive[e]
    /\ e # doneEvent
    /\ \E q \in armBreadthFirst(Q, alive, e) : SetQ(q)
    /\ uaf' = (uaf \/ ArmIsUndefined(Q, alive, e, tail))
    /\ OrderAfterArm(e, prev[e] = NullSlot, QueuedEvents(Q, alive), FALSE)
    /\ op' = "armBreadthFirst"
    /\ UNCHANGED <<firing, alive, waitVars, counters>>
    /\ UNCHANGED <<threadVars, sleepVars, nodeVars>>

\* ~Event, called by application code on an event that is not firing.
Destroy(e) ==
    /\ UserCode
    /\ alive[e]
    /\ e # doneEvent
    /\ ~firing[e]
    /\ SetQ(DestroyEvent(Q, alive, e))
    /\ alive' = [alive EXCEPT ![e] = FALSE]
    /\ uaf' = (uaf \/ DestroyIsUndefined(Q, alive, e))
    /\ OrderAfterDestroy(e)
    /\ op' = "destroy"
    /\ UNCHANGED <<firing, waitVars, counters>>
    /\ UNCHANGED <<threadVars, sleepVars, nodeVars>>

-----------------------------------------------------------------------------
(* EventLoop::waitImpl.                                                     *)

WaitKinds == {"immediate", "yield", "pending"}

\* KJ_REQUIRE(!running, "wait() is not allowed from within event callbacks.")
WaitRejects(r) == r

\* node->onReady(doneEvent): an immediate node answers true, a yield node
\* arms the event breadth-first, any other node keeps it for later.
OnReadyAnswer(kind) == kind = "immediate"

\* A loop that goes on after the sentinel has fired.
LoopIgnoresSentinel(fired) == TRUE

\* while (!doneEvent.fired)
LoopContinues(fired) == ~fired

\* An exit from waitImpl that leaves the flag as it is.
RunningKeptAfterExit(r) == r

\* KJ_DEFER(running = false): the flag's value once waitImpl has exited.
RunningAfterExit(r) == FALSE

\* A fire() that leaves the flag as it is.
FiringKeptAfterFire(f) == f

\* KJ_DEFER(event->firing = false): the flag's value once fire() has exited.
FiringAfterFire(f) == FALSE

\* wait() called by application code, lines 213-222.
Wait(kind) ==
    /\ UserCode
    /\ UNCHANGED <<threadVars, sleepVars, nodeVars>>
    /\ IF WaitRejects(running)
       THEN /\ op' = "waitRejected"
            /\ UNCHANGED <<queueVars, firing, alive, waitVars, counters, uaf, orderVars>>
       ELSE IF pc # "idle"
       THEN \* a second waitImpl frame starts pumping inside the first
            /\ pc' = "nested"
            /\ op' = "wait"
            /\ UNCHANGED <<queueVars, firing, alive, running, event, doneFired,
                           waitKind, counters, uaf, orderVars>>
       ELSE LET al == [alive EXCEPT ![doneEvent] = TRUE]
                q0 == [Q EXCEPT !.next[doneEvent] = nullptr,
                                !.prev[doneEvent] = NullSlot]
            IN  /\ waits < MaxWaits
                /\ waits' = waits + 1
                /\ alive' = al
                /\ IF kind = "yield"
                   THEN /\ \E q \in armBreadthFirst(q0, al, doneEvent) : SetQ(q)
                        /\ uaf' = (uaf \/ ArmIsUndefined(q0, al, doneEvent, tail))
                        /\ OrderAfterArm(doneEvent, TRUE, QueuedEvents(Q, alive), FALSE)
                   ELSE /\ SetQ(q0)
                        /\ UNCHANGED <<uaf, orderVars>>
                /\ doneFired' = OnReadyAnswer(kind)
                /\ running' = TRUE
                /\ pc' = "loop"
                /\ waitKind' = kind
                /\ op' = "wait"
                /\ UNCHANGED <<firing, event, constructed, recording>>

\* Lines 225-233: nothing queued, so the loop's thread goes to sleep.
Sleep ==
    /\ pc = "loop"
    /\ LoopContinues(doneFired)
    /\ head = nullptr
    /\ pc' = "sleep"
    /\ op' = "sleep"
    /\ UNCHANGED <<queueVars, firing, alive, running, event, doneFired, waitKind,
                   counters, uaf, orderVars>>
    /\ UNCHANGED <<threadVars, sleepVars, nodeVars>>

\* sleep() returns; line 254.
Wake ==
    /\ pc = "sleep"
    /\ pc' = "loop"
    /\ depthFirstInsertPoint' = HeadSlot
    /\ op' = "wake"
    /\ UNCHANGED <<head, tail, next, prev, firing, alive, running, event, doneFired,
                   waitKind, counters, uaf, orderVars>>
    /\ UNCHANGED <<threadVars, sleepVars, nodeVars>>

\* Lines 235-248: dequeue the head event and enter its fire().  Calling
\* fire() on an event that no longer exists ends the run.
Dequeue ==
    /\ pc = "loop"
    /\ LoopContinues(doneFired)
    /\ head # nullptr
    /\ UNCHANGED <<threadVars, sleepVars, nodeVars>>
    /\ IF ~alive[head]
       THEN /\ pc' = "crashed"
            /\ uaf' = TRUE
            /\ op' = "crash"
            /\ UNCHANGED <<queueVars, firing, alive, running, event, doneFired,
                           waitKind, counters, orderVars>>
       ELSE /\ SetQ(Dequeued(Q, head))
            /\ event' = head
            /\ firing' = [firing EXCEPT ![head] = TRUE]
            /\ pc' = "fire"
            /\ OrderAfterDequeue(head, QueuedEvents(Dequeued(Q, head), alive) \ {head})
            /\ op' = "dequeue"
            /\ UNCHANGED <<alive, running, doneFired, waitKind, counters, uaf>>

\* Lines 249-254: fire() returns nullptr, or (self) the event itself for
\* the loop to destroy.  BoolEvent::fire sets fired and returns nullptr.
FireReturn(self) ==
    /\ pc = "fire"
    /\ self => event # doneEvent
    /\ firing' = [firing EXCEPT ![event] = FiringAfterFire(firing[event])]
    /\ IF self
       THEN /\ SetQ([DestroyEvent(Q, alive, event) EXCEPT !.dfip = HeadSlot])
            /\ alive' = [alive EXCEPT ![event] = FALSE]
            /\ uaf' = (uaf \/ DestroyIsUndefined(Q, alive, event))
            /\ OrderAfterFire(event)
       ELSE /\ SetQ([Q EXCEPT !.dfip = HeadSlot])
            /\ OrderAfterFire(nullptr)
            /\ UNCHANGED <<alive, uaf>>
    /\ doneFired' = (doneFired \/ event = doneEvent)
    /\ pc' = "loop"
    /\ event' = nullptr
    /\ op' = IF self THEN "fireReturnSelf" ELSE "fireReturn"
    /\ UNCHANGED <<running, waitKind, counters>>
    /\ UNCHANGED <<threadVars, sleepVars, nodeVars>>

\* waitImpl's frame is left: running is reset, doneEvent is destroyed.
LeaveWait(label) ==
    /\ running' = RunningAfterExit(running)
    /\ SetQ(DestroyEvent(Q, alive, doneEvent))
    /\ alive' = [alive EXCEPT ![doneEvent] = FALSE]
    /\ uaf' = (uaf \/ DestroyIsUndefined(Q, alive, doneEvent))
    /\ OrderAfterFire(doneEvent)
    /\ pc' = "idle"
    /\ event' = nullptr
    /\ doneFired' = FALSE
    /\ waitKind' = "none"
    /\ op' = label
    /\ UNCHANGED counters
    /\ UNCHANGED <<threadVars, sleepVars, nodeVars>>

\* Lines 224, 257-263: the sentinel has fired, waitImpl returns.
WaitReturn ==
    /\ pc = "loop"
    /\ ~LoopContinues(doneFired)
    /\ LeaveWait("waitReturn")
    /\ UNCHANGED firing

\* An exception leaves fire() and, through it, waitImpl.
FireThrow ==
    /\ pc = "fire"
    /\ event # doneEvent
    /\ firing' = [firing EXCEPT ![event] = FiringAfterFire(firing[event])]
    /\ LeaveWait("fireThrow")

Next ==
    \/ \E e \in Events : Construct(e)
    \/ \E e \in AllEvents : ArmDepthFirst(e)
    \/ \E e \in Events : ArmBreadthFirst(e)
    \/ \E e \in Events : Destroy(e)
    \/ \E kind \in WaitKinds : Wait(kind)
    \/ Sleep
    \/ Wake
    \/ Dequeue
    \/ \E self \in BOOLEAN : FireReturn(self)
    \/ WaitReturn
    \/ FireThrow

Spec == Init /\ [][Next]_vars

SpecOrder == InitOrder /\ [][Next]_vars

\* The loop's own steps in waitImpl: the test of the while loop, sleep()
\* and its return, the dequeue, the return of fire().  The loop's thread
\* keeps running, a sleep() comes back and so does a fire().
LoopSteps ==
    Sleep \/ Wake \/ Dequeue \/ (\E self \in BOOLEAN : FireReturn(self)) \/ WaitReturn

\* Spec with a loop that keeps going.  Nothing obliges the application to
\* arm or destroy anything.
SpecLive == Init /\ [][Next]_vars /\ WF_vars(LoopSteps)

-----------------------------------------------------------------------------
(* Several threads.  Every event belongs to the loop of LoopThread; any     *)
(* thread may construct or destroy a loop of its own and may call an arm    *)
(* function of an event.                                                    *)

\* A constructor that accepts a thread which already has a loop.
CtorNeverRejects(tl) == FALSE

\* KJ_REQUIRE(threadLocalEventLoop == nullptr, "This thread already has an
\* EventLoop."): whether the constructor fails, tl being the thread's slot.
CtorRejects(tl) == tl # nullptr

\* The loop of LoopThread, to which every event belongs, exists.
LoopExists == threadLocalEventLoop[LoopThread] = LoopThread

\* EventLoop::EventLoop() on thread t.
NewLoop(t) ==
    /\ IF CtorRejects(threadLocalEventLoop[t])
       THEN /\ op' = "newLoopRejected"
            /\ UNCHANGED threadLocalEventLoop
       ELSE /\ op' = "newLoop"
            /\ threadLocalEventLoop' = [threadLocalEventLoop EXCEPT ![t] = t]
    /\ caller' = t
    /\ UNCHANGED <<queueVars, firing, alive, waitVars, counters, uaf, orderVars,
                   sleepVars, nodeVars>>

\* EventLoop::current() on thread t.
Current(t) ==
    /\ op' = IF threadLocalEventLoop[t] # nullptr THEN "current" ELSE "currentFailed"
    /\ caller' = t
    /\ UNCHANGED <<queueVars, firing, alive, waitVars, counters, uaf, orderVars,
                   threadLocalEventLoop, sleepVars, nodeVars>>

\* Lines 199-210: the destructor of the loop of thread t finds events still
\* queued, reports it and unlinks them all.  Only the queue of LoopThread's
\* loop is modelled; the memory of a destroyed loop holds nothing that is
\* read back.
LoopUnlinked(t, q) ==
    IF t # LoopThread THEN q
    ELSE [q EXCEPT !.head = nullptr, !.tail = HeadSlot, !.dfip = HeadSlot,
                   !.next = [e \in AllEvents |-> IF e \in Queued(q) THEN nullptr ELSE q.next[e]],
                   !.prev = [e \in AllEvents |-> IF e \in Queued(q) THEN NullSlot ELSE q.prev[e]]]

\* EventLoop::~EventLoop() on the thread the loop was constructed on, when no
\* wait() is running; KJ_DEFER clears the thread's slot on every way out.
DeleteLoop(t) ==
    /\ threadLocalEventLoop[t] = t
    /\ pc = "idle"
    /\ threadLocalEventLoop' = [threadLocalEventLoop EXCEPT ![t] = nullptr]
    /\ caller' = t
    /\ SetQ(LoopUnlinked(t, Q))
    /\ op' = IF t = LoopThread /\ head # nullptr THEN "deleteLoopReported" ELSE "deleteLoop"
    /\ UNCHANGED <<firing, alive, waitVars, counters, uaf, orderVars,
                   sleepVars, nodeVars>>

ArmOps == {"armDepthFirst", "armBreadthFirst", "armRejected"}

\* Thread t calls e.armDepthFirst() (df) or e.armBreadthFirst() on an event
\* whose loop exists.
ThreadArm(t, e, df) ==
    /\ alive[e]
    /\ LoopExists
    /\ caller' = t
    /\ IF ThreadMayTouch(threadLocalEventLoop[t], LoopThread)
       THEN /\ \E q \in (IF df THEN armDepthFirst(Q, alive, e)
                              ELSE armBreadthFirst(Q, alive, e)) : SetQ(q)
            /\ op' = IF df THEN "armDepthFirst" ELSE "armBreadthFirst"
       ELSE /\ op' = "armRejected"
            /\ UNCHANGED queueVars
    /\ UNCHANGED <<firing, alive, waitVars, counters, uaf, orderVars,
                   threadLocalEventLoop, sleepVars, nodeVars>>

NextThreads ==
    \/ \E e \in Events : LoopExists /\ Construct(e)
    \/ \E t \in Threads : NewLoop(t)
    \/ \E t \in Threads : Current(t)
    \/ \E t \in Threads : DeleteLoop(t)
    \/ \E t \in Threads, e \in Events, df \in BOOLEAN : ThreadArm(t, e, df)

SpecThreads == Init /\ [][NextThreads]_vars

-----------------------------------------------------------------------------
(* SimpleEventLoop: prepareToSleep(), sleep() and wake(), in the futex      *)
(* build and in the mutex/condition-variable build.  The other threads have *)
(* no loop of their own: they arm events of the loop and call wake().       *)

InitSleep ==
    /\ InitLoop
    /\ recording = FALSE
    /\ InitThreads
    /\ \E useFutex \in BOOLEAN : InitSimpleEventLoop(useFutex)
    /\ InitNodes

\* The places of the loop's thread between prepareToSleep() and the return
\* of sleep().
SleepPcs == {"prepared", "selfWake", "sleeping", "futexWait", "blocked"}

\* pthread_mutex_unlock by thread t (nothing to release if t is not the owner).
Unlocked(owner, t) == IF owner = t THEN 0 ELSE owner

\* Lines 225-227: the queue is empty, prepareToSleep().  In the condvar
\* build pthread_mutex_lock waits until the mutex is free.
PrepareToSleep ==
    /\ pc = "loop"
    /\ LoopContinues(doneFired)
    /\ head = nullptr
    /\ futex \/ mutexOwner = 0
    /\ mutexOwner' = IF futex THEN mutexOwner ELSE LoopThread
    /\ preparedToSleep' = 1
    /\ pc' = "prepared"
    /\ op' = "prepareToSleep"
    /\ UNCHANGED <<queueVars, restVars, futex, signalled, wpc>>

\* Lines 228-233: if (head != nullptr) wake(); sleep();
Recheck ==
    /\ pc = "prepared"
    /\ pc' = IF head # nullptr THEN "selfWake" ELSE "sleeping"
    /\ op' = "recheck"
    /\ UNCHANGED <<queueVars, restVars, sleepVars>>

\* Line 231: wake() called by the loop's thread.  Futex build: the exchange;
\* FUTEX_WAKE finds nobody waiting.  Condvar build: pthread_mutex_lock on
\* the mutex this thread has held since prepareToSleep(), which is undefined
\* for a default mutex: the thread blocks for ever, or the call returns and
\* wake() goes on.
SelfWake ==
    /\ pc = "selfWake"
    /\ \/ /\ futex
          /\ preparedToSleep' = 0
          /\ pc' = "sleeping"
          /\ UNCHANGED mutexOwner
       \/ /\ ~futex
          /\ pc' = "deadlocked"
          /\ UNCHANGED <<preparedToSleep, mutexOwner>>
       \/ /\ ~futex
          /\ preparedToSleep' = 0
          /\ mutexOwner' = Unlocked(mutexOwner, LoopThread)
          /\ pc' = "sleeping"
    /\ op' = "selfWake"
    /\ UNCHANGED <<queueVars, restVars, futex, signalled, wpc>>

\* sleep(): the test of the while loop.  While the flag is 1 the futex build
\* goes on to the FUTEX_WAIT call and the condvar build into
\* pthread_cond_wait, which releases the mutex; otherwise sleep() returns
\* (the condvar build unlocking the mutex) and line 254 follows.
SleepCheck ==
    /\ pc = "sleeping"
    /\ IF preparedToSleep = 1
       THEN /\ pc' = IF futex THEN "futexWait" ELSE "blocked"
            /\ mutexOwner' = IF futex THEN mutexOwner ELSE Unlocked(mutexOwner, LoopThread)
            /\ signalled' = FALSE
            /\ op' = "sleepWait"
            /\ UNCHANGED depthFirstInsertPoint
       ELSE /\ pc' = "loop"
            /\ mutexOwner' = IF futex THEN mutexOwner ELSE Unlocked(mutexOwner, LoopThread)
            /\ depthFirstInsertPoint' = HeadSlot
            /\ op' = "sleepReturn"
            /\ UNCHANGED signalled
    /\ UNCHANGED <<head, tail, next, prev, restVars, futex, preparedToSleep, wpc>>

\* syscall(SYS_futex, &preparedToSleep, FUTEX_WAIT_PRIVATE, 1, ...): blocks
\* if the flag is still 1, returns at once otherwise.
FutexWait ==
    /\ pc = "futexWait"
    /\ pc' = IF preparedToSleep = 1 THEN "blocked" ELSE "sleeping"
    /\ signalled' = FALSE
    /\ op' = "futexWait"
    /\ UNCHANGED <<queueVars, restVars, futex, preparedToSleep, mutexOwner, wpc>>

\* The blocked thread has been woken; pthread_cond_wait takes the mutex
\* again before it returns.
Resume ==
    /\ pc = "blocked"
    /\ signalled
    /\ futex \/ mutexOwner = 0
    /\ mutexOwner' = IF futex THEN mutexOwner ELSE LoopThread
    /\ signalled' = FALSE
    /\ pc' = "sleeping"
    /\ op' = "resume"
    /\ UNCHANGED <<queueVars, restVars, futex, preparedToSleep, wpc>>

\* Thread t arms event e of the loop breadth-first (the ownership test lets
\* a thread without a loop through) and goes on to call wake().
ForeignArm(t, e) ==
    /\ wpc[t] = "idle"
    /\ MayArm(e)
    /\ ThreadMayTouch(threadLocalEventLoop[t], LoopThread)
    /\ \E q \in armBreadthFirst(Q, alive, e) : SetQ(q)
    /\ uaf' = (uaf \/ ArmIsUndefined(Q, alive, e, tail))
    /\ wpc' = [wpc EXCEPT ![t] = "wake"]
    /\ op' = "foreignArm"
    /\ UNCHANGED <<firing, alive, waitVars, counters, orderVars, threadVars, nodeVars,
                   futex, preparedToSleep, mutexOwner, signalled>>

\* Thread t calls wake().
WakeCall(t) ==
    /\ wpc[t] = "idle"
    /\ wpc' = [wpc EXCEPT ![t] = "wake"]
    /\ op' = "wakeCall"
    /\ UNCHANGED <<queueVars, waitVars, restVars, futex, preparedToSleep, mutexOwner, signalled>>

\* The flag after wake() has seen it.
FlagAfterWake(f) == 0

\* wake(), first step: the atomic exchange (futex build), or
\* pthread_mutex_lock, which waits until the mutex is free (condvar build).
WakeEnter(t) ==
    /\ wpc[t] = "wake"
    /\ IF futex
       THEN /\ preparedToSleep' = FlagAfterWake(preparedToSleep)
            /\ wpc' = [wpc EXCEPT ![t] = IF preparedToSleep # 0 THEN "futexWake" ELSE "idle"]
            /\ UNCHANGED mutexOwner
       ELSE /\ mutexOwner = 0
            /\ mutexOwner' = t
            /\ wpc' = [wpc EXCEPT ![t] = "locked"]
            /\ UNCHANGED preparedToSleep
    /\ op' = "wakeEnter"
    /\ UNCHANGED <<queueVars, waitVars, restVars, futex, signalled>>

\* wake(), second step: FUTEX_WAKE (futex build), or the test of the flag,
\* pthread_cond_signal and pthread_mutex_unlock (condvar build).  Either
\* wakes the loop's thread only if it is blocked.
WakeFinish(t) ==
    /\ wpc[t] \in {"futexWake", "locked"}
    /\ IF futex
       THEN /\ signalled' = (signalled \/ pc = "blocked")
            /\ UNCHANGED <<preparedToSleep, mutexOwner>>
       ELSE /\ preparedToSleep' = FlagAfterWake(preparedToSleep)
            /\ signalled' = (signalled \/ (preparedToSleep # 0 /\ pc = "blocked"))
            /\ mutexOwner' = Unlocked(mutexOwner, t)
    /\ wpc' = [wpc EXCEPT ![t] = "idle"]
    /\ op' = "wakeFinish"
    /\ UNCHANGED <<queueVars, waitVars, restVars, futex>>

SleepSteps == PrepareToSleep \/ Recheck \/ SelfWake \/ SleepCheck \/ FutexWait \/ Resume

WakeSteps(t) == WakeEnter(t) \/ WakeFinish(t)

NextSleep ==
    \/ \E e \in Events : Construct(e)
    \/ \E kind \in WaitKinds : Wait(kind)
    \/ PrepareToSleep
    \/ Recheck
    \/ SelfWake
    \/ SleepCheck
    \/ FutexWait
    \/ Resume
    \/ \E t \in OtherThreads, e \in AllEvents : ForeignArm(t, e)
    \/ \E t \in OtherThreads : WakeCall(t)
    \/ \E t \in OtherThreads : WakeEnter(t)
    \/ \E t \in OtherThreads : WakeFinish(t)
    \/ Dequeue
    \/ \E self \in BOOLEAN : FireReturn(self)
    \/ WaitReturn

\* Every thread that can take a step of sleep() or wake() takes it in the end.
SpecSleep ==
    /\ InitSleep
    /\ [][NextSleep]_vars
    /\ SF_vars(SleepSteps)
    /\ \A t \in OtherThreads : SF_vars(WakeSteps(t))

-----------------------------------------------------------------------------
(* Promise nodes: OnReadyEvent, adapter nodes and ExclusiveJoinPromiseNode. *)
(* The application fulfils the adapters, joins them, registers events on    *)
(* nodes and waits on the join.                                             *)

BranchOf(d) == IF d = "left" THEN leftBranch ELSE rightBranch
DepOf(b) == IF b = leftBranch THEN "left" ELSE "right"
Other(d) == IF d = "left" THEN "right" ELSE "left"

\* Whether node n exists: an adapter belongs to the application until the
\* join is made and to its branch until the branch lets go of it.
NodeExists(js, dep, n) ==
    IF n = "join" THEN js = "live" ELSE js = "none" \/ (js = "live" /\ dep[n])

\* OnReadyEvent::init(newEvent): the answer, and the new value of `event`.
OnReadyInit(ev, newEvent) ==
    [ready |-> ev = kJ_ALREADY_READY,
     event |-> IF ev = kJ_ALREADY_READY THEN ev ELSE newEvent]

\* OnReadyEvent::arm() on node n: what it can leave.  Calling armDepthFirst
\* through a pointer that is no existing event's is undefined: the process
\* crashes or goes on.
OnReadyArm(ore, q, al, n) ==
    IF ore[n] = nullptr
    THEN {[ore |-> [ore EXCEPT ![n] = kJ_ALREADY_READY], q |-> q,
           undefined |-> FALSE, crash |-> FALSE]}
    ELSE IF ore[n] \in AllEvents /\ al[ore[n]]
    THEN {[ore |-> ore, q |-> q2,
           undefined |-> ArmIsUndefined(q, al, ore[n], q.dfip), crash |-> FALSE] :
              q2 \in armDepthFirst(q, al, ore[n])}
    ELSE {[ore |-> ore, q |-> q, undefined |-> TRUE, crash |-> c] : c \in BOOLEAN}

\* Application code, as opposed to the fire() of a branch.
NodesUserCode == UserCode /\ event \notin Branches

\* The application fulfils adapter d: OnReadyEvent::arm().
Fulfil(d) ==
    /\ NodesUserCode
    /\ NodeExists(joinState, dependency, d)
    /\ armCalls[d] = 0
    /\ armCalls' = [armCalls EXCEPT ![d] = 1]
    /\ \E o \in OnReadyArm(onReadyEvent, Q, alive, d) :
          /\ SetQ(o.q)
          /\ onReadyEvent' = o.ore
          /\ uaf' = (uaf \/ o.undefined)
          /\ pc' = IF o.crash THEN "crashed" ELSE pc
    /\ op' = "fulfil"
    /\ UNCHANGED <<firing, alive, running, event, doneFired, waitKind, counters, orderVars,
                   threadVars, sleepVars, dependency, winner, result, joinState, promiseVars>>

\* Branch::Branch for dependency d: if (dependency->onReady(*this)) armDepthFirst();
BranchArmed(q, al, ore, d) ==
    IF OnReadyInit(ore[d], BranchOf(d)).ready
    THEN armDepthFirst(q, al, BranchOf(d))
    ELSE {q}

\* ExclusiveJoinPromiseNode(left, right): the left branch, then the right.
JoinConstruct ==
    /\ NodesUserCode
    /\ joinState = "none"
    /\ joinState' = "live"
    /\ dependency' = [d \in Deps |-> TRUE]
    /\ onReadyEvent' = [n \in Nodes |->
                           IF n \in Deps
                           THEN OnReadyInit(onReadyEvent[n], BranchOf(n)).event
                           ELSE nullptr]
    /\ LET al == [e \in AllEvents |-> alive[e] \/ e \in Branches]
           q0 == [Q EXCEPT !.next[leftBranch] = nullptr, !.prev[leftBranch] = NullSlot,
                           !.next[rightBranch] = nullptr, !.prev[rightBranch] = NullSlot]
       IN  /\ alive' = al
           /\ \E q1 \in BranchArmed(q0, al, onReadyEvent, "left") :
                 \E q2 \in BranchArmed(q1, al, onReadyEvent, "right") : SetQ(q2)
    /\ op' = "join"
    /\ UNCHANGED <<firing, waitVars, counters, uaf, orderVars, threadVars, sleepVars,
                   armCalls, winner, result, promiseVars>>

\* The nodes the application holds: the adapters until they are handed to
\* the join, then the join.
AppOwns(n) == IF n = "join" THEN joinState = "live" ELSE joinState = "none"

OnReadyOp(n) ==
    CASE n = "left" -> "onReadyLeft"
      [] n = "right" -> "onReadyRight"
      [] OTHER -> "onReadyJoin"

\* The application calls n.onReady(e) for an event e of its own, and arms e
\* depth-first if the answer is true.  Every node here answers with
\* onReadyEvent.init(e).
OnReady(n, e) ==
    /\ NodesUserCode
    /\ AppOwns(n)
    /\ alive[e]
    /\ onReadyEvent' = [onReadyEvent EXCEPT ![n] = OnReadyInit(@, e).event]
    /\ IF OnReadyInit(onReadyEvent[n], e).ready
       THEN /\ \E q \in armDepthFirst(Q, alive, e) : SetQ(q)
            /\ uaf' = (uaf \/ ArmIsUndefined(Q, alive, e, depthFirstInsertPoint))
       ELSE UNCHANGED <<queueVars, uaf>>
    /\ op' = OnReadyOp(n)
    /\ UNCHANGED <<firing, alive, waitVars, counters, orderVars, threadVars, sleepVars,
                   dependency, armCalls, winner, result, joinState, promiseVars>>

\* wait(join), lines 213-222: doneEvent is registered on the join.
WaitJoin ==
    /\ pc = "idle"
    /\ ~WaitRejects(running)
    /\ joinState = "live"
    /\ waits < MaxWaits
    /\ waits' = waits + 1
    /\ alive' = [alive EXCEPT ![doneEvent] = TRUE]
    /\ SetQ([Q EXCEPT !.next[doneEvent] = nullptr, !.prev[doneEvent] = NullSlot])
    /\ onReadyEvent' = [onReadyEvent EXCEPT !["join"] = OnReadyInit(@, doneEvent).event]
    /\ doneFired' = OnReadyInit(onReadyEvent["join"], doneEvent).ready
    /\ running' = TRUE
    /\ pc' = "loop"
    /\ waitKind' = "join"
    /\ op' = "wait"
    /\ UNCHANGED <<firing, event, constructed, recording, uaf, orderVars, threadVars,
                   sleepVars, dependency, armCalls, winner, result, joinState, promiseVars>>

\* Branch::fire, lines 750-760, and the loop's lines 249-254: the other
\* branch's dependency is released, the join's OnReadyEvent is armed.
FireBranch ==
    /\ pc = "fire"
    /\ event \in Branches
    /\ dependency' = [dependency EXCEPT ![Other(DepOf(event))] = FALSE]
    /\ winner' = IF winner = "none" THEN DepOf(event) ELSE winner
    /\ armCalls' = [armCalls EXCEPT !["join"] = @ + 1]
    /\ \E o \in OnReadyArm([onReadyEvent EXCEPT ![Other(DepOf(event))] = nullptr],
                           Q, alive, "join") :
          /\ SetQ([o.q EXCEPT !.dfip = HeadSlot])
          /\ onReadyEvent' = o.ore
          /\ uaf' = (uaf \/ o.undefined)
          /\ pc' = IF o.crash THEN "crashed" ELSE "loop"
    /\ firing' = [firing EXCEPT ![event] = FiringAfterFire(firing[event])]
    /\ event' = nullptr
    /\ op' = "fireBranch"
    /\ UNCHANGED <<alive, running, doneFired, waitKind, counters, orderVars, threadVars,
                   sleepVars, result, joinState, promiseVars>>

\* ExclusiveJoinPromiseNode::get: left.get(output) || right.get(output).
JoinGet(dep) ==
    IF dep["left"] THEN "left" ELSE IF dep["right"] THEN "right" ELSE "failed"

\* Lines 257-263 of wait(join): node->get(result), then the join is
\* destroyed (its right branch first), then doneEvent.
WaitJoinReturn ==
    /\ pc = "loop"
    /\ ~LoopContinues(doneFired)
    /\ waitKind = "join"
    /\ result' = JoinGet(dependency)
    /\ joinState' = "destroyed"
    /\ dependency' = [d \in Deps |-> FALSE]
    /\ onReadyEvent' = [n \in Nodes |-> nullptr]
    /\ LET q1 == DestroyEvent(Q, alive, rightBranch)
           al1 == [alive EXCEPT ![rightBranch] = FALSE]
           q2 == DestroyEvent(q1, al1, leftBranch)
           al2 == [al1 EXCEPT ![leftBranch] = FALSE]
       IN  /\ SetQ(DestroyEvent(q2, al2, doneEvent))
           /\ alive' = [al2 EXCEPT ![doneEvent] = FALSE]
           /\ uaf' = (uaf \/ DestroyIsUndefined(Q, alive, rightBranch)
                          \/ DestroyIsUndefined(q1, al1, leftBranch)
                          \/ DestroyIsUndefined(q2, al2, doneEvent))
    /\ running' = RunningAfterExit(running)
    /\ pc' = "idle"
    /\ event' = nullptr
    /\ doneFired' = FALSE
    /\ waitKind' = "none"
    /\ op' = "waitReturn"
    /\ UNCHANGED <<firing, counters, orderVars, threadVars, sleepVars, armCalls, winner,
                   promiseVars>>

NextNodes ==
    \/ \E e \in Events \ Branches : Construct(e)
    \/ \E d \in Deps : Fulfil(d)
    \/ JoinConstruct
    \/ \E n \in Nodes, e \in Events \ Branches : OnReady(n, e)
    \/ Wait("yield")
    \/ WaitJoin
    \/ Sleep
    \/ Wake
    \/ Dequeue
    \/ FireBranch
    \/ event \notin Branches /\ FireReturn(FALSE)
    \/ waitKind # "join" /\ WaitReturn
    \/ WaitJoinReturn

SpecNodes == Init /\ [][NextNodes]_vars

-----------------------------------------------------------------------------
(* TaskSetImpl: every event is a Task.  The application adds promises to    *)
(* the set, fulfils them and waits; it does not run inside Task::fire.      *)

\* A result that never carries an exception.
TaskNeverFailed(t) == FALSE

\* Whether the result a Task hands to the error handler carries an
\* exception: the one its promise yields, or one thrown by `node = nullptr`.
TaskFailed(t) == t.exception \/ t.dtorThrows

\* TaskSetImpl::add, lines 133-137, with Task::Task, lines 91-96: the promise
\* is fulfilled already (ready) or not, it yields an exception (exc) or not,
\* and the destructor of its node throws (thr) or not.
Add(e, ready, exc, thr) ==
    /\ UserCode /\ pc # "fire"
    /\ e = constructed + 1
    /\ constructed' = e
    /\ LET al == [alive EXCEPT ![e] = TRUE]
           q0 == [Q EXCEPT !.next[e] = nullptr, !.prev[e] = NullSlot]
           init == OnReadyInit(IF ready THEN kJ_ALREADY_READY ELSE nullptr, e)
       IN  /\ alive' = al
           /\ IF init.ready
              THEN /\ \E q \in armDepthFirst(q0, al, e) : SetQ(q)
                   /\ uaf' = (uaf \/ ArmIsUndefined(q0, al, e, q0.dfip))
              ELSE /\ SetQ(q0)
                   /\ UNCHANGED uaf
           /\ task' = [task EXCEPT ![e] = [ore |-> init.event, ready |-> ready,
                                            exception |-> exc, dtorThrows |-> thr,
                                            node |-> TRUE, fired |-> 0, failed |-> 0]]
    /\ tasks' = tasks \cup {e}
    /\ op' = "add"
    /\ UNCHANGED <<firing, waitVars, waits, recording, orderVars, threadVars, sleepVars,
                   joinVars, forkVars, chain>>

\* The promise of Task e is fulfilled: OnReadyEvent::arm().
FulfilTask(e) ==
    /\ UserCode /\ pc # "fire"
    /\ e \in tasks
    /\ ~task[e].ready
    /\ \E o \in OnReadyArm([x \in {e} |-> task[e].ore], Q, alive, e) :
          /\ SetQ(o.q)
          /\ task' = [task EXCEPT ![e].ore = o.ore[e], ![e].ready = TRUE]
          /\ uaf' = (uaf \/ o.undefined)
          /\ pc' = IF o.crash THEN "crashed" ELSE pc
    /\ op' = "fulfilTask"
    /\ UNCHANGED <<firing, alive, running, event, doneFired, waitKind, counters, orderVars,
                   threadVars, sleepVars, joinVars, forkVars, chain, tasks>>

\* Task::fire, lines 99-122, and the loop's lines 249-254: the result is
\* taken, the node released, the error handler called if there is an
\* exception, the Task taken out of the map and returned to the loop, which
\* resets firing and then destroys it.  KJ_ASSERT ends the run if the Task
\* is not in the map.
FireTask ==
    /\ pc = "fire"
    /\ event \in Events
    /\ task' = [task EXCEPT ![event] =
                   [NoTask EXCEPT !.fired = task[event].fired + 1,
                                  !.failed = task[event].failed
                                                 + (IF TaskFailed(task[event]) THEN 1 ELSE 0)]]
    /\ IF event \in tasks
       THEN /\ tasks' = tasks \ {event}
            /\ firing' = [firing EXCEPT ![event] = FiringAfterFire(firing[event])]
            /\ SetQ([DestroyEvent(Q, alive, event) EXCEPT !.dfip = HeadSlot])
            /\ alive' = [alive EXCEPT ![event] = FALSE]
            /\ uaf' = (uaf \/ DestroyIsUndefined(Q, alive, event))
            /\ pc' = "loop"
            /\ event' = nullptr
            /\ op' = "fireTask"
       ELSE /\ pc' = "crashed"
            /\ op' = "taskNotInMap"
            /\ UNCHANGED <<queueVars, firing, alive, event, uaf, tasks>>
    /\ UNCHANGED <<running, doneFired, waitKind, counters, orderVars, threadVars, sleepVars,
                   joinVars, forkVars, chain>>

NextTasks ==
    \/ \E e \in Events, ready, exc, thr \in BOOLEAN : Add(e, ready, exc, thr)
    \/ \E e \in Events : FulfilTask(e)
    \/ \E kind \in WaitKinds : pc # "fire" /\ Wait(kind)
    \/ Sleep
    \/ Wake
    \/ Dequeue
    \/ FireTask
    \/ event = doneEvent /\ FireReturn(FALSE)
    \/ WaitReturn

SpecTasks == Init /\ [][NextTasks]_vars

-----------------------------------------------------------------------------
(* ForkHub and ForkBranch.  The application forks an adapter promise, makes *)
(* and destroys branches, registers events on them and waits on them.       *)

\* Application code, as opposed to ForkHubBase::fire.
ForkUserCode == UserCode /\ event # hubEvent

\* What a fulfilled promise holds.
Results == {"value", "exception"}

\* ForkHubBase::ForkHubBase, lines 608-611, on an adapter promise that is
\* not fulfilled yet (r = "none") or holds r.
Fork(r) ==
    /\ pc = "idle"
    /\ constructed = 0
    /\ hub.state = "none"
    /\ constructed' = hubEvent
    /\ LET al == [alive EXCEPT ![hubEvent] = TRUE]
           q0 == [Q EXCEPT !.next[hubEvent] = nullptr, !.prev[hubEvent] = NullSlot]
           init == OnReadyInit(IF r = "none" THEN nullptr ELSE kJ_ALREADY_READY, hubEvent)
       IN  /\ alive' = al
           /\ IF init.ready
              THEN /\ \E q \in armDepthFirst(q0, al, hubEvent) : SetQ(q)
                   /\ uaf' = (uaf \/ ArmIsUndefined(q0, al, hubEvent, q0.dfip))
              ELSE /\ SetQ(q0)
                   /\ UNCHANGED uaf
           /\ hub' = [hub EXCEPT !.state = "waiting", !.ore = init.event, !.inner = TRUE,
                                 !.innerResult = r]
    /\ op' = "fork"
    /\ UNCHANGED <<firing, waitVars, waits, recording, orderVars, threadVars, sleepVars,
                   joinVars, taskVars, chain, branch>>

\* The forked promise is fulfilled with r: OnReadyEvent::arm().
FulfilHub(r) ==
    /\ ForkUserCode
    /\ hub.inner
    /\ hub.innerResult = "none"
    /\ \E o \in OnReadyArm([x \in {0} |-> hub.ore], Q, alive, 0) :
          /\ SetQ(o.q)
          /\ hub' = [hub EXCEPT !.ore = o.ore[0], !.innerResult = r]
          /\ uaf' = (uaf \/ o.undefined)
          /\ pc' = IF o.crash THEN "crashed" ELSE pc
    /\ op' = "fulfilHub"
    /\ UNCHANGED <<firing, alive, running, event, doneFired, waitKind, counters, orderVars,
                   threadVars, sleepVars, joinVars, taskVars, chain, branch>>

\* A branch list that is taken to be active whatever lastPtr is.
ListAlwaysActive(lastPtr) == TRUE

\* Line 566, `lock->lastPtr == nullptr`: the list is active until the hub
\* has fired.
ListActive(lastPtr) == lastPtr # NullSlot

\* A destructor that never unlinks.
NeverLinked(prevPtr) == FALSE

\* Line 578, `prevPtr != nullptr`: the branch is on the list.
Linked(prevPtr) == prevPtr # NullSlot

\* The branches on the list, from branchList.first on.
RECURSIVE ListFrom(_, _, _)
ListFrom(nx, b, seen) ==
    IF b = 0 \/ b \in seen THEN {} ELSE {b} \cup ListFrom(nx, nx[b], seen \cup {b})

\* ForkBranchBase::ForkBranchBase, lines 563-575; early tells whether the
\* hub had not fired yet.
AddBranch(b) ==
    /\ ForkUserCode
    /\ hub.state # "none"
    /\ branch[b] = NoBranch
    /\ \A c \in 1..(b - 1) : branch[c] # NoBranch
    /\ IF ~ListActive(hub.lastPtr)
       THEN /\ branch' = [branch EXCEPT ![b] = [NoBranch EXCEPT !.live = TRUE,
                                                               !.early = hub.state # "fired",
                                                               !.ore = kJ_ALREADY_READY,
                                                               !.signals = 1]]
            /\ UNCHANGED hub
       ELSE /\ branch' = [branch EXCEPT ![b] = [NoBranch EXCEPT !.live = TRUE,
                                                               !.early = hub.state # "fired",
                                                               !.prevPtr = hub.lastPtr]]
            /\ hub' = [hub EXCEPT !.next = [hub.next EXCEPT ![hub.lastPtr] = b, ![b] = 0],
                                  !.lastPtr = b]
    /\ op' = "addBranch"
    /\ UNCHANGED <<queueVars, firing, alive, waitVars, counters, uaf, orderVars, threadVars,
                   sleepVars, joinVars, taskVars, chain>>

\* ForkBranchBase::~ForkBranchBase, lines 577-584: the hub and the branches
\* once branch b is gone.  What is remembered of b is how it was signalled.
BranchUnlinked(h, br, b) ==
    LET n == h.next[b]
        p == br[b].prevPtr
        gone == [NoBranch EXCEPT !.signals = br[b].signals, !.got = br[b].got,
                                 !.early = br[b].early /\ br[b].signals > 0]
    IN  IF ~Linked(p)
        THEN [hub |-> h, branch |-> [br EXCEPT ![b] = gone]]
        ELSE [hub |-> [h EXCEPT !.next = [h.next EXCEPT ![p] = n, ![b] = 0],
                                !.lastPtr = IF n = 0 THEN p ELSE h.lastPtr],
              branch |-> [c \in ForkBranches |->
                             IF c = b THEN gone
                             ELSE IF c = n THEN [br[c] EXCEPT !.prevPtr = p]
                             ELSE br[c]]]

\* The application destroys a branch it holds.
DestroyBranch(b) ==
    /\ ForkUserCode
    /\ branch[b].live
    /\ hub.waited # b
    /\ hub' = BranchUnlinked(hub, branch, b).hub
    /\ branch' = BranchUnlinked(hub, branch, b).branch
    /\ op' = "destroyBranch"
    /\ UNCHANGED <<queueVars, firing, alive, waitVars, counters, uaf, orderVars, threadVars,
                   sleepVars, joinVars, taskVars, chain>>

\* The application calls b.onReady(e) for an event e of its own, lines
\* 598-600, and arms e depth-first if the answer is true.
BranchOnReady(b, e) ==
    /\ ForkUserCode
    /\ branch[b].live
    /\ hub.waited # b
    /\ alive[e]
    /\ branch' = [branch EXCEPT ![b].ore = OnReadyInit(@, e).event]
    /\ IF OnReadyInit(branch[b].ore, e).ready
       THEN /\ \E q \in armDepthFirst(Q, alive, e) : SetQ(q)
            /\ uaf' = (uaf \/ ArmIsUndefined(Q, alive, e, depthFirstInsertPoint))
       ELSE UNCHANGED <<queueVars, uaf>>
    /\ op' = "onReadyBranch"
    /\ UNCHANGED <<firing, alive, waitVars, counters, orderVars, threadVars, sleepVars,
                   joinVars, taskVars, chain, hub>>

\* wait(b), lines 213-222: doneEvent is registered on branch b.
WaitBranch(b) ==
    /\ pc = "idle"
    /\ ~WaitRejects(running)
    /\ branch[b].live
    /\ waits < MaxWaits
    /\ waits' = waits + 1
    /\ alive' = [alive EXCEPT ![doneEvent] = TRUE]
    /\ SetQ([Q EXCEPT !.next[doneEvent] = nullptr, !.prev[doneEvent] = NullSlot])
    /\ branch' = [branch EXCEPT ![b].ore = OnReadyInit(@, doneEvent).event]
    /\ hub' = [hub EXCEPT !.waited = b]
    /\ doneFired' = OnReadyInit(branch[b].ore, doneEvent).ready
    /\ running' = TRUE
    /\ pc' = "loop"
    /\ waitKind' = "branch"
    /\ op' = "wait"
    /\ UNCHANGED <<firing, event, constructed, recording, uaf, orderVars, threadVars,
                   sleepVars, joinVars, taskVars, chain>>

\* The loop of ForkHubBase::fire, lines 623-627, from branch b on: every
\* branch met is signalled (hubReady) and taken off the list.  The result
\* is the set of states the walk can end in.
RECURSIVE HubWalk(_, _, _, _, _)
HubWalk(nx, br, q, al, b) ==
    IF b = 0
    THEN {[next |-> nx, branch |-> br, q |-> q, undefined |-> FALSE]}
    ELSE UNION {
           {[w EXCEPT !.undefined = w.undefined \/ o.undefined] :
               w \in HubWalk([nx EXCEPT ![br[b].prevPtr] = 0],
                             [br EXCEPT ![b].ore = o.ore[b], ![b].prevPtr = NullSlot,
                                        ![b].signals = br[b].signals + 1],
                             o.q, al, nx[b])} :
           o \in OnReadyArm([x \in ForkBranches |-> br[x].ore], q, al, b)}

\* ForkHubBase::fire, lines 613-634, and the loop's lines 249-254.  A fire
\* that finds lastPtr null writes through a null pointer.
FireHub ==
    /\ pc = "fire"
    /\ event = hubEvent
    /\ firing' = [firing EXCEPT ![event] = FiringAfterFire(firing[event])]
    /\ IF hub.lastPtr = NullSlot
       THEN /\ pc' = "crashed"
            /\ UNCHANGED <<queueVars, uaf, hub, branch, event>>
       ELSE /\ \E w \in HubWalk(hub.next, branch, Q, alive, hub.next[0]) :
                  /\ SetQ([w.q EXCEPT !.dfip = HeadSlot])
                  /\ uaf' = (uaf \/ w.undefined)
                  /\ branch' = w.branch
                  /\ hub' = [hub EXCEPT !.state = "fired", !.stored = hub.innerResult,
                                        !.inner = FALSE, !.ore = nullptr,
                                        !.next = [w.next EXCEPT ![hub.lastPtr] = 0],
                                        !.lastPtr = NullSlot, !.walks = hub.walks + 1]
            /\ pc' = "loop"
            /\ event' = nullptr
    /\ op' = "fireHub"
    /\ UNCHANGED <<alive, running, doneFired, waitKind, counters, orderVars, threadVars,
                   sleepVars, joinVars, taskVars, chain>>

\* Lines 257-263 of wait(b): node->get(result) copies the hub's stored
\* result; then the branch is destroyed, then doneEvent.
WaitBranchReturn ==
    /\ pc = "loop"
    /\ ~LoopContinues(doneFired)
    /\ waitKind = "branch"
    /\ LET br == [branch EXCEPT ![hub.waited].got = hub.stored]
           u == BranchUnlinked(hub, br, hub.waited)
       IN  /\ hub' = [u.hub EXCEPT !.waited = 0]
           /\ branch' = u.branch
    /\ SetQ(DestroyEvent(Q, alive, doneEvent))
    /\ alive' = [alive EXCEPT ![doneEvent] = FALSE]
    /\ uaf' = (uaf \/ DestroyIsUndefined(Q, alive, doneEvent))
    /\ running' = RunningAfterExit(running)
    /\ pc' = "idle"
    /\ event' = nullptr
    /\ doneFired' = FALSE
    /\ waitKind' = "none"
    /\ op' = "waitReturn"
    /\ UNCHANGED <<firing, counters, orderVars, threadVars, sleepVars, joinVars, taskVars, chain>>

NextFork ==
    \/ \E r \in Results \cup {"none"} : Fork(r)
    \/ \E r \in Results : FulfilHub(r)
    \/ \E e \in Events \ {hubEvent} : Construct(e)
    \/ \E b \in ForkBranches : AddBranch(b)
    \/ \E b \in ForkBranches : DestroyBranch(b)
    \/ \E b \in ForkBranches, e \in Events \ {hubEvent} : BranchOnReady(b, e)
    \/ \E b \in ForkBranches : WaitBranch(b)
    \/ Wait("yield")
    \/ Sleep
    \/ Wake
    \/ Dequeue
    \/ FireHub
    \/ event # hubEvent /\ FireReturn(FALSE)
    \/ waitKind # "branch" /\ WaitReturn
    \/ WaitBranchReturn

SpecFork == Init /\ [][NextFork]_vars

-----------------------------------------------------------------------------
(* ChainPromiseNode, with the Attachment and Transform nodes as wrappers.   *)
(* The application chains an adapter promise whose result is an exception   *)
(* or another adapter promise, fulfils the two, registers one event on the  *)
(* chain or waits on it (bare or wrapped).                                  *)

\* A fire() that adopts whatever the step-1 result holds.
AlwaysAdopted(r) == "adopted"

\* Lines 685-698: the node fire() installs as inner for step-1 result r.
Step2Inner(r) == IF r = "exception" THEN "broken" ELSE "adopted"

\* A fire() that leaves the state as it is.
StateKept(st) == st

\* Line 699: state = STEP2.
StateAfterFire(st) == "STEP2"

\* inner->onReady(e) in STEP2: an ImmediateBrokenPromiseNode answers true, the
\* adopted adapter node answers with onReadyEvent.init(e).
InnerOnReady(c, e) ==
    IF c.inner = "broken" THEN [ready |-> TRUE, chain |-> c]
    ELSE [ready |-> OnReadyInit(c.ore2, e).ready,
          chain |-> [c EXCEPT !.ore2 = OnReadyInit(c.ore2, e).event]]

\* ChainPromiseNode::onReady(e), lines 649-659; the caller is the consumer.
\* failed: the KJ_REQUIRE of line 652 does not hold.
ChainOnReady(c, e) ==
    LET o == IF c.state = "STEP1"
             THEN [ready |-> FALSE, chain |-> [c EXCEPT !.onReadyEvent = e]]
             ELSE InnerOnReady(c, e)
    IN  [failed |-> c.state = "STEP1" /\ c.onReadyEvent # nullptr,
         ready |-> o.ready,
         chain |-> [o.chain EXCEPT !.consumer = e,
                                   !.signals = c.signals + (IF o.ready THEN 1 ELSE 0)]]

\* Application code, as opposed to ChainPromiseNode::fire.
ChainUserCode == UserCode /\ event # chainEvent

\* ChainPromiseNode::ChainPromiseNode, lines 642-645, on a step-1 promise
\* that is not fulfilled yet (r = "none") or holds r.
Chain(r) ==
    /\ pc = "idle"
    /\ constructed = 0
    /\ chain.state = "none"
    /\ constructed' = chainEvent
    /\ LET al == [alive EXCEPT ![chainEvent] = TRUE]
           q0 == [Q EXCEPT !.next[chainEvent] = nullptr, !.prev[chainEvent] = NullSlot]
           init == OnReadyInit(IF r = "none" THEN nullptr ELSE kJ_ALREADY_READY, chainEvent)
       IN  /\ alive' = al
           /\ IF init.ready
              THEN /\ \E q \in armDepthFirst(q0, al, chainEvent) : SetQ(q)
                   /\ uaf' = (uaf \/ ArmIsUndefined(q0, al, chainEvent, q0.dfip))
              ELSE /\ SetQ(q0)
                   /\ UNCHANGED uaf
           /\ chain' = [chain EXCEPT !.state = "STEP1", !.inner = "step1",
                                     !.ore1 = init.event, !.r1 = r]
    /\ op' = "chain"
    /\ UNCHANGED <<firing, waitVars, waits, recording, orderVars, threadVars, sleepVars,
                   joinVars, taskVars, forkVars>>

\* The step-1 promise is fulfilled with r: OnReadyEvent::arm().
FulfilStep1(r) ==
    /\ ChainUserCode
    /\ chain.inner = "step1"
    /\ chain.r1 = "none"
    /\ \E o \in OnReadyArm([x \in {1} |-> chain.ore1], Q, alive, 1) :
          /\ SetQ(o.q)
          /\ chain' = [chain EXCEPT !.ore1 = o.ore[1], !.r1 = r]
          /\ uaf' = (uaf \/ o.undefined)
          /\ pc' = IF o.crash THEN "crashed" ELSE pc
    /\ op' = "fulfilStep1"
    /\ UNCHANGED <<firing, alive, running, event, doneFired, waitKind, counters, orderVars,
                   threadVars, sleepVars, joinVars, taskVars, forkVars>>

\* The promise held by the step-1 result is fulfilled with r, before or
\* after the chain has adopted it: OnReadyEvent::arm().
FulfilStep2(r) ==
    /\ ChainUserCode
    /\ chain.state \in {"STEP1", "STEP2"}
    /\ chain.r1 = "promise"
    /\ chain.r2 = "none"
    /\ \E o \in OnReadyArm([x \in {2} |-> chain.ore2], Q, alive, 2) :
          /\ SetQ(o.q)
          /\ chain' = [chain EXCEPT !.ore2 = o.ore[2], !.r2 = r,
                                    !.signals = IF chain.ore2 = nullptr THEN @ ELSE @ + 1]
          /\ uaf' = (uaf \/ o.undefined)
          /\ pc' = IF o.crash THEN "crashed" ELSE pc
    /\ op' = "fulfilStep2"
    /\ UNCHANGED <<firing, alive, running, event, doneFired, waitKind, counters, orderVars,
                   threadVars, sleepVars, joinVars, taskVars, forkVars>>

\* The application makes the one onReady call on the chain, for an event e
\* of its own, and arms e depth-first if the answer is true.  onReady is
\* noexcept: a failing KJ_REQUIRE ends the run.
OnReadyChain(e) ==
    /\ ChainUserCode
    /\ chain.state \in {"STEP1", "STEP2"}
    /\ chain.consumer = nullptr
    /\ alive[e]
    /\ LET o == ChainOnReady(chain, e)
       IN  IF o.failed
           THEN /\ pc' = "crashed"
                /\ UNCHANGED <<queueVars, uaf, chain>>
           ELSE /\ chain' = o.chain
                /\ pc' = pc
                /\ IF o.ready
                   THEN /\ \E q \in armDepthFirst(Q, alive, e) : SetQ(q)
                        /\ uaf' = (uaf \/ ArmIsUndefined(Q, alive, e, depthFirstInsertPoint))
                   ELSE UNCHANGED <<queueVars, uaf>>
    /\ op' = "onReadyChain"
    /\ UNCHANGED <<firing, alive, running, event, doneFired, waitKind, counters, orderVars,
                   threadVars, sleepVars, joinVars, taskVars, forkVars>>

\* The nodes a chain can be wrapped in before it is waited for; both hand
\* onReady on to their dependency (lines 510-512, 531-533).
Wrappers == {"none", "attach", "transform"}

\* wait() on the chain wrapped in w, lines 213-222: the one onReady call is
\* made for doneEvent.
WaitChain(w) ==
    /\ pc = "idle"
    /\ ~WaitRejects(running)
    /\ chain.state \in {"STEP1", "STEP2"}
    /\ chain.consumer = nullptr
    /\ ~ChainOnReady(chain, doneEvent).failed
    /\ waits < MaxWaits
    /\ waits' = waits + 1
    /\ alive' = [alive EXCEPT ![doneEvent] = TRUE]
    /\ SetQ([Q EXCEPT !.next[doneEvent] = nullptr, !.prev[doneEvent] = NullSlot])
    /\ chain' = [ChainOnReady(chain, doneEvent).chain EXCEPT !.wrapper = w]
    /\ doneFired' = ChainOnReady(chain, doneEvent).ready
    /\ running' = TRUE
    /\ pc' = "loop"
    /\ waitKind' = "chain"
    /\ op' = "wait"
    /\ UNCHANGED <<firing, event, constructed, recording, uaf, orderVars, threadVars,
                   sleepVars, joinVars, taskVars, forkVars>>

\* ChainPromiseNode::fire, lines 670-708, and the loop's lines 249-254.  The
\* KJ_REQUIRE of line 671 and the KJ_FAIL_ASSERT of line 697 end the run.
FireChain ==
    /\ pc = "fire"
    /\ event = chainEvent
    /\ firing' = [firing EXCEPT ![event] = FiringAfterFire(firing[event])]
    /\ IF chain.state = "STEP2" \/ chain.r1 = "none"
       THEN /\ pc' = "crashed"
            /\ UNCHANGED <<queueVars, uaf, chain, event>>
       ELSE LET c2 == [chain EXCEPT !.inner = Step2Inner(chain.r1), !.ore1 = nullptr,
                                    !.state = StateAfterFire(chain.state)]
                o == InnerOnReady(c2, chain.onReadyEvent)
            IN  /\ IF chain.onReadyEvent = nullptr
                   THEN /\ chain' = c2
                        /\ SetQ([Q EXCEPT !.dfip = HeadSlot])
                        /\ UNCHANGED uaf
                   ELSE /\ chain' = [o.chain EXCEPT
                                        !.signals = c2.signals + (IF o.ready THEN 1 ELSE 0)]
                        /\ IF o.ready
                           THEN /\ \E q \in armDepthFirst(Q, alive, chain.onReadyEvent) :
                                       SetQ([q EXCEPT !.dfip = HeadSlot])
                                /\ uaf' = (uaf \/ ArmIsUndefined(Q, alive, chain.onReadyEvent,
                                                                 depthFirstInsertPoint))
                           ELSE /\ SetQ([Q EXCEPT !.dfip = HeadSlot])
                                /\ UNCHANGED uaf
                /\ pc' = "loop"
                /\ event' = nullptr
    /\ op' = "fireChain"
    /\ UNCHANGED <<alive, running, doneFired, waitKind, counters, orderVars, threadVars,
                   sleepVars, joinVars, taskVars, forkVars>>

\* Line 257 of wait(): node->get(result).  ChainPromiseNode::get (661-664)
\* hands on what its inner node yields; AttachmentPromiseNodeBase::get
\* (514-516) hands on what the chain yields; a Transform node takes the
\* chain's result and releases the chain (getDepResult, 552-559).  The
\* KJ_REQUIRE of line 662 ends the run.
WaitChainGet ==
    /\ pc = "loop"
    /\ ~LoopContinues(doneFired)
    /\ waitKind = "chain"
    /\ IF chain.state # "STEP2"
       THEN /\ pc' = "crashed"
            /\ UNCHANGED <<queueVars, alive, uaf, chain>>
       ELSE LET c2 == [chain EXCEPT !.got = IF chain.inner = "broken" THEN "exception"
                                             ELSE chain.r2]
            IN  /\ pc' = "got"
                /\ IF chain.wrapper = "transform"
                   THEN /\ chain' = [c2 EXCEPT !.state = "destroyed", !.inner = "none",
                                               !.ore2 = nullptr, !.onReadyEvent = nullptr]
                        /\ SetQ(DestroyEvent(Q, alive, chainEvent))
                        /\ alive' = [alive EXCEPT ![chainEvent] = FALSE]
                        /\ uaf' = (uaf \/ DestroyIsUndefined(Q, alive, chainEvent))
                   ELSE /\ chain' = c2
                        /\ UNCHANGED <<queueVars, alive, uaf>>
    /\ op' = "get"
    /\ UNCHANGED <<firing, running, event, doneFired, waitKind, counters, orderVars,
                   threadVars, sleepVars, joinVars, taskVars, forkVars>>

\* Lines 258-263 of wait(): node = nullptr destroys the wrapper and what it
\* still owns, the chain and its inner node; then doneEvent is destroyed.
WaitChainReturn ==
    /\ pc = "got"
    /\ chain' = [chain EXCEPT !.state = "destroyed", !.inner = "none", !.ore2 = nullptr,
                              !.onReadyEvent = nullptr]
    /\ LET q1 == DestroyEvent(Q, alive, chainEvent)
           al1 == [alive EXCEPT ![chainEvent] = FALSE]
       IN  /\ SetQ(DestroyEvent(q1, al1, doneEvent))
           /\ alive' = [al1 EXCEPT ![doneEvent] = FALSE]
           /\ uaf' = (uaf \/ (alive[chainEvent] /\ DestroyIsUndefined(Q, alive, chainEvent))
                          \/ DestroyIsUndefined(q1, al1, doneEvent))
    /\ running' = RunningAfterExit(running)
    /\ pc' = "idle"
    /\ event' = nullptr
    /\ doneFired' = FALSE
    /\ waitKind' = "none"
    /\ op' = "waitReturn"
    /\ UNCHANGED <<firing, counters, orderVars, threadVars, sleepVars, joinVars, taskVars,
                   forkVars>>

NextChain ==
    \/ \E r \in {"none", "exception", "promise"} : Chain(r)
    \/ \E r \in {"exception", "promise"} : FulfilStep1(r)
    \/ \E r \in Results : FulfilStep2(r)
    \/ \E e \in Events \ {chainEvent} : Construct(e)
    \/ \E e \in Events \ {chainEvent} : OnReadyChain(e)
    \/ \E w \in Wrappers : WaitChain(w)
    \/ Wait("yield")
    \/ Sleep
    \/ Wake
    \/ Dequeue
    \/ FireChain
    \/ event # chainEvent /\ FireReturn(FALSE)
    \/ waitKind # "chain" /\ WaitReturn
    \/ WaitChainGet
    \/ WaitChainReturn

SpecChain == Init /\ [][NextChain]_vars

-----------------------------------------------------------------------------
(* Properties of the event queue and of wait().                             *)

\* C1: an event armed breadth-first is dequeued for firing only after every
\* event that was queued when it was armed has fired or been destroyed
\* (so breadth-first arms, the yield node's included, fire in arming order).
BreadthFirstFiresAfterQueued == ~bfLate

\* C2: an event armed depth-first during E.fire() is dequeued before every
\* event that was queued behind E when E was dequeued, and before every
\* event armed depth-first later in the same fire().
DepthFirstFiresBeforeBehind == ~dfLate

\* C3: an existing event is reachable from head through next exactly when
\* its prev is not null.
EnqueuedIffPrevSet ==
    \A e \in AllEvents : alive[e] => ((e \in Queued(Q)) <=> (prev[e] # NullSlot))

RunningGuardsWait ==
    /\ [](/\ running <=> pc \in {"loop", "fire", "sleep", "crashed"}
          /\ pc # "nested"
          /\ op = "waitRejected" => (running /\ pc \in {"fire", "sleep"}))
    /\ [][op' = "waitRejected" =>
              UNCHANGED <<queueVars, firing, alive, waitVars, counters>>]_vars

\* A wait() call from inside a firing event was rejected during the second
\* wait() that was let in.
NestedWaitRejected ==
    op = "waitRejected" /\ pc = "fire" /\ running /\ waits = 2

\* C9: an arm attempted from a thread other than the loop's own is rejected
\* and leaves the queue and the event's links unchanged.
ArmOnlyFromOwnThread ==
    [][(op' \in ArmOps /\ caller' # LoopThread) =>
           (op' = "armRejected" /\ UNCHANGED queueVars)]_vars

\* C9, as the code has it: an arm is rejected exactly when the calling
\* thread's current loop is another loop (a thread with no current loop is
\* let through), and a rejected arm leaves the queue and the event's links
\* unchanged.
ArmRejectedFromOtherLoop ==
    [][op' \in ArmOps =>
           /\ (op' = "armRejected") <=>
                  (threadLocalEventLoop[caller'] \notin {nullptr, LoopThread})
           /\ (op' = "armRejected") => UNCHANGED <<queueVars, firing, alive>>]_vars

\* A thread that has a loop of its own tried to arm an event of the queued
\* loop and was rejected.
ArmFromOtherLoopRejected ==
    /\ op = "armRejected"
    /\ caller # LoopThread
    /\ threadLocalEventLoop[caller] = caller
    /\ head # nullptr

\* C8: in both builds, once prepareToSleep() has set the flag, a wake() by
\* any thread (another thread, or the loop's thread on the recheck path)
\* returns and makes the following or in-progress sleep() return; sleep()
\* returns only when the flag is 0.
NoLostWakeup ==
    /\ \A t \in OtherThreads : (wpc[t] # "idle") ~> (wpc[t] = "idle")
    /\ (pc = "selfWake") ~> (pc = "sleeping")
    /\ (pc \in SleepPcs /\ preparedToSleep = 0) ~> (pc = "loop")
    /\ [][(pc = "sleeping" /\ pc' = "loop") => preparedToSleep = 0]_vars

\* C6: whenever an ExclusiveJoin has signalled readiness (its OnReadyEvent
\* has been armed), exactly one of its two branches still holds its
\* dependency.
JoinHasExactlyOneResult ==
    (joinState = "live" /\ armCalls["join"] > 0) =>
        (dependency["left"] # dependency["right"])

\* C7: an ExclusiveJoin completes with the result of the branch that fired
\* first, and from the end of that fire() on the other branch holds no
\* dependency.
JoinYieldsFirstFired ==
    /\ []((joinState = "live" /\ winner # "none") => ~dependency[Other(winner)])
    /\ [][(result = "none" /\ result' # "none") => result' = winner]_vars

\* C10: a call of onReady on a node that already holds a registered event
\* is reported as an error instead of being accepted, and the registered
\* event is not replaced.
SecondOnReadyDetected ==
    [][\A n \in Nodes :
          (onReadyEvent[n] \in AllEvents /\ NodeExists(joinState', dependency', n)) =>
              (op' # OnReadyOp(n) /\ onReadyEvent'[n] = onReadyEvent[n])]_vars

\* C16: slot integrity: for every event on the queue, prev designates the
\* slot that currently refers to the event (the head slot, or the next
\* field of the event queued in front of it), in particular for the new
\* first event right after the loop has dequeued the one in front of it.
PrevDesignatesReferencingSlot ==
    \A e \in AllEvents :
        (alive[e] /\ e \in Queued(Q)) =>
            IF prev[e] = HeadSlot THEN head = e
            ELSE prev[e] \in AllEvents /\ alive[prev[e]] /\ next[prev[e]] = e

\* C20: destroying an event that is queued and not firing removes exactly
\* that event: the other queued events stay reachable in the same order,
\* tail designates the next slot of the last of them (the head slot if there
\* is none), the depth-first insert point designates the head slot or the
\* next slot of a reachable event, and no field of an event that was not
\* queued is written.
DestroyRemovesOnlyThatEvent ==
    [][\A e \in Events :
          (/\ op' = "destroy" /\ alive[e] /\ ~alive'[e]
           /\ e \in Queued(Q) /\ prev[e] # NullSlot /\ ~firing[e]) =>
              LET Stays(x) == x # e
                  after == QueueSeq(Q')
              IN  /\ after = SelectSeq(QueueSeq(Q), Stays)
                  /\ tail' = (IF after = <<>> THEN HeadSlot ELSE after[Len(after)])
                  /\ depthFirstInsertPoint' \in {HeadSlot} \cup Range(after)
                  /\ \A x \in AllEvents \ Queued(Q) :
                        next'[x] = next[x] /\ prev'[x] = prev[x]]_vars

\* C14: a thread has at most one loop installed as its current loop: the
\* constructor fails exactly on a thread that already has one and then leaves
\* that loop installed; current() fails exactly when the thread has no loop;
\* destroying the loop on its own thread clears the thread's slot, whether or
\* not the destructor reports queued events.
OneLoopPerThread ==
    /\ [](\A t \in Threads : threadLocalEventLoop[t] \in {nullptr, t})
    /\ [][/\ op' \in {"newLoop", "newLoopRejected"} =>
                /\ (op' = "newLoopRejected") <=> (threadLocalEventLoop[caller'] # nullptr)
                /\ (op' = "newLoopRejected") => UNCHANGED threadLocalEventLoop
                /\ (op' = "newLoop") =>
                       threadLocalEventLoop' = [threadLocalEventLoop EXCEPT ![caller'] = caller']
          /\ op' \in {"current", "currentFailed"} =>
                /\ (op' = "currentFailed") <=> (threadLocalEventLoop[caller'] = nullptr)
                /\ UNCHANGED threadLocalEventLoop
          /\ op' \in {"deleteLoop", "deleteLoopReported"} =>
                /\ threadLocalEventLoop[caller'] = caller'
                /\ threadLocalEventLoop' = [threadLocalEventLoop EXCEPT ![caller'] = nullptr]
                /\ (op' = "deleteLoopReported") <=> (caller' = LoopThread /\ head # nullptr)]_vars

\* The loop was destroyed on its own thread with events queued while another
\* thread has a loop of its own.
LoopDestroyedWithEventsQueued ==
    /\ op = "deleteLoopReported"
    /\ threadLocalEventLoop[LoopThread] = nullptr
    /\ \E t \in OtherThreads : threadLocalEventLoop[t] = t

\* C11: a task of a TaskSet fires at most once, and its event is queued from
\* the moment its promise is ready until it fires; during that fire
\* taskFailed is called exactly once if the result (an exception thrown by
\* releasing the node included) carries an exception and not at all
\* otherwise; a task is in the set exactly while it has not fired, so the
\* set is empty once every task has fired.
TaskFiresOnceAndLeavesSet ==
    /\ [](\A e \in Events :
             /\ task[e].fired <= 1
             /\ (e \in tasks) <=> (e <= constructed /\ task[e].fired = 0)
             /\ (e \in tasks) <=> alive[e]
             /\ (e \in tasks /\ task[e].ready /\ pc # "crashed") =>
                    (e \in Queued(Q) \/ firing[e]))
    /\ [][\A e \in Events :
             (task'[e].fired # task[e].fired) =>
                 /\ e \in tasks /\ task[e].ready /\ task'[e].fired = 1
                 /\ task'[e].failed =
                        IF task[e].exception \/ task[e].dtorThrows THEN 1 ELSE 0]_vars

\* Every task has been added and has fired, the first with a call of
\* taskFailed and the second without, and the set is empty.
AllTasksFiredOneFailedOnRelease ==
    /\ tasks = {}
    /\ \A e \in Events : task[e].fired = 1
    /\ task[1].failed = 1 /\ task[2].failed = 0
    /\ op = "fireTask"

\* C19: no event is destroyed while its firing flag is true: at most one
\* event is firing at any time, the loop has reset the flag when it drops
\* the event that fire() returned, and a Task that takes itself out of the
\* set during its own fire() is destroyed with the flag reset.
NoEventDestroyedWhileFiring ==
    /\ [](/\ Cardinality({e \in AllEvents : firing[e]}) <= 1
          /\ \A e \in AllEvents : firing[e] => (alive[e] /\ pc = "fire" /\ event = e))
    /\ [][\A e \in AllEvents : (alive[e] /\ ~alive'[e]) => (~firing'[e] /\ event' # e)]_vars

\* A Task has just been destroyed by the loop at the end of its own fire()
\* while another Task is queued.
TaskDestroyedAfterOwnFire ==
    /\ op = "fireTask"
    /\ head \in tasks
    /\ \E e \in Events : task[e].fired = 1 /\ ~alive[e] /\ ~firing[e]

\* C12: every branch of a fork observes the same stored result, whether it
\* was made before or after the hub fired: a branch is signalled only after
\* the hub has stored the result and released the inner node; a branch made
\* before is signalled during the hub's fire(), a branch made after is
\* signalled at construction; get yields the stored result.
ForkBranchesSeeStoredResult ==
    /\ [](\A b \in ForkBranches :
             /\ branch[b].signals > 0 =>
                    (/\ hub.state = "fired" /\ ~hub.inner
                     /\ hub.stored \in Results /\ hub.stored = hub.innerResult)
             /\ branch[b].got \in {"none", hub.stored}
             /\ (branch[b].live /\ hub.state = "fired") => branch[b].signals = 1)
    /\ [][\A b \in ForkBranches :
             /\ (branch'[b].signals # branch[b].signals) =>
                    /\ branch'[b].signals = 1
                    /\ \/ op' = "fireHub" /\ branch[b].live /\ branch[b].early
                       \/ op' = "addBranch" /\ ~branch[b].live /\ hub.state = "fired"
             /\ (op' = "waitReturn" /\ hub.waited = b) =>
                    (branch'[b].got = hub.stored /\ hub.stored \in Results)]_vars

\* Two branches, the first made before the hub fired and the second after,
\* have both been waited for and have yielded the same stored exception.
EarlyAndLateBranchGotSameResult ==
    /\ op = "waitReturn"
    /\ branch[1].early /\ ~branch[2].early
    /\ branch[1].got = "exception" /\ branch[2].got = "exception"
    /\ branch[1].signals = 1 /\ branch[2].signals = 1

\* C18: every live branch is either on the hub's list, the hub not having
\* fired and the branch not signalled, or off the list and signalled; the
\* hub walks the list at most once; a branch destroyed before the hub fires
\* is off the list, so the walk does not visit it, and the walk signals
\* every branch that remains.
BranchLinkedOrSignalled ==
    /\ [](/\ \A b \in ForkBranches :
                branch[b].live =>
                    \/ /\ b \in ListFrom(hub.next, hub.next[0], {})
                       /\ hub.state # "fired" /\ branch[b].signals = 0
                       /\ branch[b].prevPtr # NullSlot /\ hub.next[branch[b].prevPtr] = b
                    \/ /\ b \notin ListFrom(hub.next, hub.next[0], {})
                       /\ branch[b].signals = 1 /\ branch[b].prevPtr = NullSlot
          /\ \A b \in ListFrom(hub.next, hub.next[0], {}) : branch[b].live
          /\ hub.walks <= 1
          /\ (hub.lastPtr = NullSlot) <=> (hub.state = "fired"))
    /\ [][op' = "fireHub" =>
             \A b \in ForkBranches :
                 /\ branch[b].live => (branch'[b].live /\ branch'[b].signals = 1)
                 /\ ~branch[b].live => branch'[b] = branch[b]]_vars

\* The hub has just fired and signalled the second branch; the first branch
\* was destroyed before the fire without having been signalled.
HubFiredAfterBranchDestroyed ==
    /\ op = "fireHub"
    /\ branch[1] = NoBranch
    /\ branch[2].live /\ branch[2].signals = 1 /\ branch[2].ore \in Events

\* C13: when the step-1 result of a chain carries an exception, fire()
\* installs an immediate-broken node as the step-2 inner node, so that the
\* consumer, registered before or after the fire(), is reported ready, and
\* get yields that exception and no value.
ChainHandsOnStep1Exception ==
    /\ [](/\ (chain.state = "STEP2" /\ chain.r1 = "exception") => chain.inner = "broken"
          /\ (chain.inner = "broken" /\ chain.consumer # nullptr) => chain.signals = 1)
    /\ [][(op' = "get" /\ chain.r1 = "exception") =>
              (pc' = "got" /\ chain'.got = "exception")]_vars

\* get has yielded the step-1 exception to a wait() that registered its
\* event while the chain was in STEP1.
Step1ExceptionGot ==
    /\ op = "get"
    /\ chain.got = "exception" /\ chain.inner = "broken"
    /\ chain.onReadyEvent = doneEvent /\ chain.signals = 1

\* C15: prompt release: when the get of a node that owns a dependency
\* returns (an Attachment or Transform node wrapping the chain, the chain in
\* STEP2), the node no longer owns that dependency.
GetReleasesDependency ==
    pc = "got" =>
        /\ chain.wrapper # "none" => chain.state = "destroyed"
        /\ chain.state # "destroyed" => chain.inner = "none"

\* C17: a chain goes from STEP1 to STEP2 once, in its fire(), and never
\* back; the consumer's event is not armed while the chain is in STEP1; in
\* STEP2 the consumer has been reported ready exactly when the adopted inner
\* node is ready, whether it registered before or after the transition, and
\* if the inner node is ready at the transition the event is armed
\* depth-first within the chain's own fire().
ChainStepsOnce ==
    /\ [](/\ chain.state = "STEP1" =>
                (/\ chain.signals = 0
                 /\ chain.consumer # nullptr => chain.consumer \notin Queued(Q)
                 /\ chain.consumer = doneEvent => ~doneFired)
          /\ (chain.state = "STEP2" /\ chain.consumer # nullptr) =>
                ((chain.signals = 1) <=> (chain.inner = "broken" \/ chain.r2 # "none"))
          /\ chain.signals <= 1)
    /\ [][/\ chain.state = "STEP2" => chain'.state \in {"STEP2", "destroyed"}
          /\ (chain.state = "STEP1" /\ chain'.state # "STEP1") =>
                (chain'.state = "STEP2" /\ op' = "fireChain")
          /\ (op' = "fireChain" /\ pc' = "loop") => chain'.state = "STEP2"
          /\ (op' = "fireChain" /\ chain.onReadyEvent # nullptr /\ chain'.signals = 1) =>
                head' = chain.onReadyEvent]_vars

\* The chain has just fired and adopted a promise that was fulfilled
\* already: the event registered in STEP1 is at the head of the queue.
ConsumerArmedInChainFire ==
    /\ op = "fireChain"
    /\ chain.state = "STEP2" /\ chain.inner = "adopted" /\ chain.r2 # "none"
    /\ chain.onReadyEvent \in Events /\ head = chain.onReadyEvent
    /\ chain.signals = 1

\* C21: readiness is signalled at most once per node: OnReadyEvent::arm()
\* is invoked at most once on each node's OnReadyEvent over the node's
\* lifetime, and never while the OnReadyEvent holds the "already ready"
\* sentinel.
ReadinessSignalledOnce ==
    /\ [](\A n \in Nodes : armCalls[n] <= 1)
    /\ [][\A n \in Nodes :
             armCalls'[n] # armCalls[n] => onReadyEvent[n] # kJ_ALREADY_READY]_vars

\* The event is on the queue as the code sees it: prev != nullptr.
Armed(e) == alive[e] /\ prev[e] # NullSlot

\* C22: every event that has been armed, depth-first or breadth-first, and
\* is not destroyed is eventually fired, provided wait() does not return
\* first and only finitely many further arms are made, whatever else is
\* armed or destroyed in the meantime.  Nothing is asked of a run that has
\* gone through a dangling pointer: what the program does then is not
\* defined.
ArmedEventEventuallyFires ==
    (<>[][op' \notin {"armDepthFirst", "armBreadthFirst", "wait"}]_vars) =>
        \A e \in AllEvents :
            [](Armed(e) /\ running =>
                  <>(\/ pc = "fire" /\ event = e
                     \/ ~alive[e]
                     \/ ~running
                     \/ uaf))

====
